---- MODULE Spec2Model ----
(***************************************************************************)
(* Balanced ternary: the Trit and Trits classes of src/trit.py (the Trit   *)
(* class of src/btern.py is the same code).                                *)
(*                                                                         *)
(* Python values are modelled as tagged records:                           *)
(*   [type |-> "Trit", trit |-> t]     a Trit object                       *)
(*   [type |-> "Real", num |-> i]      an int or float, by its sign        *)
(*   [type |-> "None"]                 None                                *)
(*   [type |-> "str",  text |-> cs]    a string, cs its characters         *)
(*   [type |-> "int",  int |-> n]      an integer given to Trits()         *)
(*   [type |-> "list", items |-> vs]   a list of the values above          *)
(*   [type |-> "Trits", obj |-> o]     a Trits object used as an iterable  *)
(* A raised exception is the record [raised |-> name].                     *)
(***************************************************************************)
EXTENDS Integers, Sequences, FiniteSets, TLC

VARIABLES cur, last

vars == <<cur, last>>

(***************************************************************************)
(* Bounds of the model.                                                    *)
(***************************************************************************)
MaxLen == 3
MaxInt == 14
MaxOrder == 31
MaxText == 2
MaxMul == 2
MaxList == 2

(***************************************************************************)
(* Python integers are unbounded.  An integer is the pair <<hi, lo>> with  *)
(* value hi * 3^16 + lo and 0 <= lo < 3^16, which is unique.               *)
(***************************************************************************)
Radix == 3^16

Norm(hi, lo) == <<hi + (lo \div Radix), lo % Radix>>

IntOf(i) == Norm(0, i)

Pow3(p) == IF p < 16 THEN <<0, 3^p>> ELSE <<3^(p - 16), 0>>

IntAdd(a, b) == Norm(a[1] + b[1], a[2] + b[2])

IntNeg(a) == Norm(-a[1], -a[2])

IntSub(a, b) == IntAdd(a, IntNeg(b))

IntIsNeg(a) == a[1] < 0

IntIsZero(a) == a = <<0, 0>>

IntLess(a, b) == a[1] < b[1] \/ (a[1] = b[1] /\ a[2] < b[2])

IntAbs(a) == IF IntIsNeg(a) THEN IntNeg(a) ELSE a

\* unit * a for unit in {-1, 0, 1}
IntTimes(unit, a) ==
    IF unit = 0 THEN IntOf(0) ELSE IF unit < 0 THEN IntNeg(a) ELSE a

(***************************************************************************)
(* Module constants.                                                       *)
(***************************************************************************)
NEG == "-"
ZERO == "0"
POS == "+"

GLYPHS == <<NEG, ZERO, POS>>

INTEGERS == (NEG :> -1) @@ (ZERO :> 0) @@ (POS :> 1)

\* The two pictographs are written by their code points.
INPUTS ==
    (<<NEG>> :> NEG) @@ (<<"-", "1">> :> NEG) @@ (<<"U+2717">> :> NEG) @@
    (<<ZERO>> :> ZERO) @@ (<<>> :> ZERO) @@ (<<"=">> :> ZERO) @@
    (<<"N">> :> ZERO) @@ (<<"n">> :> ZERO) @@ (<<"Z">> :> ZERO) @@
    (<<"z">> :> ZERO) @@
    (<<POS>> :> POS) @@ (<<"1">> :> POS) @@ (<<"U+2713">> :> POS)

\* Trit.__init__
Trit(value) == [value |-> value, integer |-> INTEGERS[value]]

TRITS == [x \in {NEG, ZERO, POS} |-> Trit(x)]

Raised(e) == [raised |-> e]

IsRaised(r) == "raised" \in DOMAIN r

(***************************************************************************)
(* str.strip(): drop the leading and the trailing whitespace.              *)
(***************************************************************************)
Whitespace == {" ", "\t", "\n"}

RECURSIVE lstrip(_)
lstrip(cs) ==
    IF cs # <<>> /\ Head(cs) \in Whitespace THEN lstrip(Tail(cs)) ELSE cs

RECURSIVE rstrip(_)
rstrip(cs) ==
    IF cs # <<>> /\ cs[Len(cs)] \in Whitespace
    THEN rstrip(SubSeq(cs, 1, Len(cs) - 1))
    ELSE cs

\* Mutant of strip: the trailing whitespace is kept
strip_leading_only(cs) == lstrip(cs)

strip(cs) == rstrip(lstrip(cs))

(***************************************************************************)
(* Trit.make                                                               *)
(***************************************************************************)
make(value) ==
    IF value.type = "Trit" THEN value.trit
    ELSE IF value.type = "Real" THEN
        IF value.num = 0 THEN TRITS[ZERO]
        ELSE IF value.num > 0 THEN TRITS[POS]
        ELSE TRITS[NEG]
    ELSE IF value.type = "None" THEN TRITS[ZERO]
    ELSE LET text == strip(value.text)
         IN  IF text \in DOMAIN INPUTS
             THEN TRITS[INPUTS[text]]
             ELSE Raised("ValueError")

(***************************************************************************)
(* Trit operators                                                          *)
(***************************************************************************)
Trit_neg(self) ==
    IF self.value = NEG THEN TRITS[POS]
    ELSE IF self.value = POS THEN TRITS[NEG]
    ELSE TRITS[ZERO]

Trit_abs(self) == IF self.value = NEG THEN TRITS[POS] ELSE self

Trit_invert(self) == Trit_neg(self)

Trit_lt(self, other) == self.integer < other.integer

Trit_eq(self, other) == self.value = other.value

Trit_gt(self, other) == self.integer > other.integer

Trit_and(self, other) ==
    IF NEG \in {self.value, other.value} THEN TRITS[NEG]
    ELSE IF self.value = POS /\ other.value = POS THEN TRITS[POS]
    ELSE TRITS[ZERO]

Trit_or(self, other) ==
    IF POS \in {self.value, other.value} THEN TRITS[POS]
    ELSE IF self.value = NEG /\ other.value = NEG THEN TRITS[NEG]
    ELSE TRITS[ZERO]

\* Mutant of Trit_xor: no test for a zero operand
Trit_xor_no_zero(self, other) ==
    IF self.value # other.value THEN TRITS[POS] ELSE TRITS[NEG]

Trit_xor(self, other) ==
    IF ZERO \in {self.value, other.value} THEN TRITS[ZERO]
    ELSE IF self.value # other.value THEN TRITS[POS]
    ELSE TRITS[NEG]

\* Mutant of add: equal operands give the operand, not its negation
add_no_wrap(self, other) ==
    LET carry == TRITS[ZERO]
    IN  IF self.value = ZERO THEN <<other, carry>>
        ELSE IF other.value = ZERO THEN <<self, carry>>
        ELSE IF Trit_eq(self, other) THEN <<self, self>>
        ELSE <<TRITS[ZERO], carry>>

\* Trit.add: the pair <<result, carry>>
add(self, other) ==
    LET carry == TRITS[ZERO]
    IN  IF self.value = ZERO THEN <<other, carry>>
        ELSE IF other.value = ZERO THEN <<self, carry>>
        ELSE IF Trit_eq(self, other) THEN <<Trit_neg(self), self>>
        ELSE <<TRITS[ZERO], carry>>

(***************************************************************************)
(* int_order: int(math.ceil(math.log(2 * abs(integer), 3))).               *)
(*                                                                         *)
(* math.log returns a binary64.  With x = 2 * abs(integer) and 3^j the     *)
(* largest power of 3 below x, the true logarithm is j + t with            *)
(* t = log3(1 + (x - 3^j) / 3^j), about (x - 3^j) / (3^j * ln 3).  The     *)
(* binary64 numbers next to j, for 16 <= j < 32, are 2^-48 apart, so a     *)
(* logarithm with t < 2^-49 is returned as at most j and the ceiling is j, *)
(* one less than the order.  In units of 3^16 that is                      *)
(*     (x - 3^j) * 2^49 / (3^16 * ln 3) < 3^(j - 16),                      *)
(* and 2^49 / (3^16 * ln 3) = 11903790.08.  From j = 32 on the spacing     *)
(* doubles.  Below j = 16 no even x is that close to 3^j.                  *)
(***************************************************************************)
HalfUlpRatio == 11903791

\* The smallest k with 3^k >= x, for x >= 1.
CeilLog3(x) ==
    CHOOSE k \in 0..(MaxOrder + 2) :
        /\ ~IntLess(Pow3(k), x)
        /\ k > 0 => IntLess(Pow3(k - 1), x)

\* Whether binary64 cannot tell log3(x) from j, where 3^j < x.
RoundsDown(x, j) ==
    LET d == IntSub(x, Pow3(j))
        ratio == IF j < 32 THEN HalfUlpRatio ELSE HalfUlpRatio \div 2
    IN  /\ j >= 16
        /\ d[1] = 0
        /\ d[2] <= (3^(j - 16)) \div ratio

int_order(integer) ==
    LET x == IntAdd(IntAbs(integer), IntAbs(integer))
        k == CeilLog3(x)
    IN  IF k > 0 /\ RoundsDown(x, k - 1) THEN k - 1 ELSE k

(***************************************************************************)
(* Python list slicing, lst[start:stop] with step 1.  A bound is the       *)
(* sequence <<>> for None or <<i>> for the integer i.                      *)
(***************************************************************************)
None == <<>>

Some(i) == <<i>>

Min(i, j) == IF i < j THEN i ELSE j

Max(i, j) == IF i > j THEN i ELSE j

\* A slice bound as an offset in 0..len
SliceIndex(bound, len, default) ==
    IF bound = None THEN default
    ELSE IF bound[1] < 0 THEN Max(len + bound[1], 0)
    ELSE Min(bound[1], len)

Slice(lst, start, stop) ==
    LET from == SliceIndex(start, Len(lst), 0)
        to == SliceIndex(stop, Len(lst), Len(lst))
    IN  SubSeq(lst, from + 1, to)

(***************************************************************************)
(* Trits.__init__                                                          *)
(***************************************************************************)
\* One iteration of the while loop of the integer branch
decompose_step(st) ==
    LET trit ==
            IF IntIsZero(st.integer) \/ int_order(st.integer) <= st.power
            THEN TRITS[ZERO]
            ELSE IF IntIsNeg(st.integer) THEN TRITS[NEG]
            ELSE TRITS[POS]
    IN  [trits |-> Append(st.trits, trit),
         integer |-> IntSub(st.integer,
                            IntTimes(trit.integer, Pow3(st.power))),
         power |-> st.power - 1]

\* Up to n iterations while power >= 0, the first half and then the rest
RECURSIVE decompose_run(_, _)
decompose_run(st, n) ==
    IF st.power < 0 \/ n <= 0 THEN st
    ELSE IF n = 1 THEN decompose_step(st)
    ELSE decompose_run(decompose_run(st, n \div 2), n - (n \div 2))

\* The while loop: it runs while power >= 0
decompose(integer, power) ==
    decompose_run([trits |-> <<>>, integer |-> integer, power |-> power],
                  power + 1).trits

\* [Trit.make(x) for x in trits]
make_all(items) == [i \in 1..Len(items) |-> make(items[i])]

\* Whether the list comprehension raises: some element does not parse
Unparsable(items) == \E i \in 1..Len(items) : IsRaised(make(items[i]))

\* The values an iterable yields
Items(trits) ==
    IF trits.type = "Trits"
    THEN [i \in 1..Len(trits.obj.trits) |->
              [type |-> "Trit", trit |-> trits.obj.trits[i]]]
    ELSE trits.items

\* self.trits before the length is forced
Parsed(trits) ==
    IF trits.type = "int" THEN
        IF IntIsZero(trits.int) THEN <<TRITS[ZERO]>>
        ELSE decompose(trits.int, int_order(trits.int) - 1)
    ELSE IF trits.type = "None" THEN <<>>
    ELSE make_all(Items(trits))

\* Mutant of Forced: the zero trits are added on the right
Forced_pad_right(lst, length) ==
    IF length = None THEN lst
    ELSE IF Len(lst) < length[1]
    THEN lst \o [i \in 1..(length[1] - Len(lst)) |-> TRITS[ZERO]]
    ELSE IF Len(lst) > length[1]
    THEN Slice(lst, Some(-length[1]), None)
    ELSE lst

\* self.trits with the length forced
Forced(lst, length) ==
    IF length = None THEN lst
    ELSE IF Len(lst) < length[1]
    THEN [i \in 1..(length[1] - Len(lst)) |-> TRITS[ZERO]] \o lst
    ELSE IF Len(lst) > length[1]
    THEN Slice(lst, Some(-length[1]), None)
    ELSE lst

\* self.string
join(lst) == [i \in 1..Len(lst) |-> lst[i].value]

\* Mutant of decode_step: the power is one too high
decode_step_power_off(lst, st) ==
    IF Trit_eq(lst[st.i + 1], TRITS[ZERO])
    THEN [i |-> st.i + 1, integer |-> st.integer]
    ELSE LET power == Len(lst) - st.i
         IN  [i |-> st.i + 1,
              integer |-> IntAdd(st.integer,
                                 IntTimes(lst[st.i + 1].integer, Pow3(power)))]

\* One iteration of the loop that sums self.integer; i counts from 0
decode_step(lst, st) ==
    IF Trit_eq(lst[st.i + 1], TRITS[ZERO])
    THEN [i |-> st.i + 1, integer |-> st.integer]
    ELSE LET power == Len(lst) - 1 - st.i
         IN  [i |-> st.i + 1,
              integer |-> IntAdd(st.integer,
                                 IntTimes(lst[st.i + 1].integer, Pow3(power)))]

\* Up to n iterations over range(len(self)), the first half and then the rest
RECURSIVE decode_run(_, _, _)
decode_run(lst, st, n) ==
    IF st.i >= Len(lst) \/ n <= 0 THEN st
    ELSE IF n = 1 THEN decode_step(lst, st)
    ELSE decode_run(lst, decode_run(lst, st, n \div 2), n - (n \div 2))

\* self.integer
decode(lst) == decode_run(lst, [i |-> 0, integer |-> IntOf(0)], Len(lst)).integer

TritsInit(trits, length) ==
    IF trits.type \in {"list", "Trits"} /\ Unparsable(Items(trits))
    THEN Raised("ValueError")
    ELSE IF length # None /\ length[1] < 0 THEN Raised("ValueError")
    ELSE LET lst == Forced(Parsed(trits), length)
         IN  [trits |-> lst, string |-> join(lst),
              integer |-> decode(lst)]

\* Trits(lst) for a list of Trit objects
OfTrits(lst) ==
    TritsInit([type |-> "list",
               items |-> [i \in 1..Len(lst) |->
                              [type |-> "Trit", trit |-> lst[i]]]], None)

(***************************************************************************)
(* Trits operators                                                         *)
(***************************************************************************)
Trits_len(self) == Len(self.trits)

Trits_neg(self) ==
    OfTrits([i \in 1..Len(self.trits) |-> Trit_neg(self.trits[i])])

Trits_invert(self) == Trits_neg(self)

Trits_pos(self) == self

\* The loop of __abs__ from the trit at i on
RECURSIVE abs_loop(_, _)
abs_loop(self, i) ==
    IF i > Len(self.trits) THEN self
    ELSE IF Trit_eq(self.trits[i], TRITS[NEG]) THEN Trits_neg(self)
    ELSE IF Trit_eq(self.trits[i], TRITS[POS]) THEN self
    ELSE abs_loop(self, i + 1)

\* Mutant of Trits_abs: the absolute value of each trit
Trits_abs_digitwise(self) ==
    OfTrits([i \in 1..Len(self.trits) |-> Trit_abs(self.trits[i])])

Trits_abs(self) == abs_loop(self, 1)

\* The pair <<a, b>> with the shorter operand padded
match_length(a, b) ==
    IF Trits_len(a) = Trits_len(b) THEN <<a, b>>
    ELSE IF Trits_len(a) < Trits_len(b)
    THEN <<TritsInit([type |-> "Trits", obj |-> a], Some(Trits_len(b))), b>>
    ELSE <<a, TritsInit([type |-> "Trits", obj |-> b], Some(Trits_len(a)))>>

\* zip(a, b) stops at the shorter operand
ZipLen(a, b) == Min(Trits_len(a), Trits_len(b))

Trits_and(self, other) ==
    LET m == match_length(self, other)
    IN  OfTrits([i \in 1..ZipLen(m[1], m[2]) |->
                     Trit_and(m[1].trits[i], m[2].trits[i])])

Trits_or(self, other) ==
    LET m == match_length(self, other)
    IN  OfTrits([i \in 1..ZipLen(m[1], m[2]) |->
                     Trit_or(m[1].trits[i], m[2].trits[i])])

Trits_xor(self, other) ==
    LET m == match_length(self, other)
    IN  OfTrits([i \in 1..ZipLen(m[1], m[2]) |->
                     Trit_xor(m[1].trits[i], m[2].trits[i])])

\* __add__: other is a Trit, or an iterable of values
Trits_add(self, other) ==
    LET lst == IF other.type = "Trit" THEN <<other>> ELSE Items(other)
        mine == [i \in 1..Len(self.trits) |->
                     [type |-> "Trit", trit |-> self.trits[i]]]
    IN  TritsInit([type |-> "list", items |-> mine \o lst], None)

\* lst * n
RECURSIVE Repeat(_, _)
Repeat(lst, n) == IF n <= 0 THEN <<>> ELSE lst \o Repeat(lst, n - 1)

Trits_mul(self, other) == OfTrits(Repeat(self.trits, other))

\* __getitem__ with a slice key
Trits_getslice(self, start, stop) == OfTrits(Slice(self.trits, start, stop))

\* The loop of cmp over zip(a, b) from position i on
RECURSIVE cmp_loop(_, _, _)
cmp_loop(a, b, i) ==
    IF i > ZipLen(a, b) THEN 0
    ELSE IF Trit_lt(a.trits[i], b.trits[i]) THEN -1
    ELSE IF Trit_gt(a.trits[i], b.trits[i]) THEN 1
    ELSE cmp_loop(a, b, i + 1)

\* Mutant of cmp: the operands are compared as they are, not matched
cmp_unmatched(self, other) == cmp_loop(self, other, 1)

cmp(self, other) ==
    LET m == match_length(self, other) IN cmp_loop(m[1], m[2], 1)

Trits_lt(self, other) == cmp(self, other) < 0

Trits_eq(self, other) == cmp(self, other) = 0

Trits_gt(self, other) == cmp(self, other) > 0

Trits_hash(self) == self.string

(***************************************************************************)
(* The inputs of the model.                                                *)
(***************************************************************************)
TritSet == {TRITS[g] : g \in {NEG, ZERO, POS}}

TritValues == {[type |-> "Trit", trit |-> t] : t \in TritSet}

SeqsUpTo(S, n) == UNION {[1..k -> S] : k \in 0..n}

\* The Trits objects of up to MaxLen trits
Operands == {OfTrits(lst) : lst \in SeqsUpTo(TritSet, MaxLen)}

\* Values as elements of a list given to Trits()
ListValues ==
    TritValues \cup
    { [type |-> "Real", num |-> -2], [type |-> "None"],
      [type |-> "str", text |-> <<"1">>],
      [type |-> "str", text |-> <<"a">>] }

Lists == {[type |-> "list", items |-> vs] : vs \in SeqsUpTo(ListValues, MaxList)}

SmallInts == {[type |-> "int", int |-> IntOf(n)] : n \in (-MaxInt)..MaxInt}

\* (3^k + d) / 2 for odd d
HalfPow3(k, d) ==
    LET s == IntAdd(Pow3(k), IntOf(d))
    IN  <<s[1] \div 2, (s[2] + (s[1] % 2) * Radix) \div 2>>

\* The integers next to the largest and the smallest of each order
BoundaryInts ==
    {[type |-> "int", int |-> IntTimes(sign, HalfPow3(k, d))] :
        sign \in {-1, 1}, k \in 1..MaxOrder, d \in {-3, -1, 1, 3}}

Lengths == {None} \cup {Some(i) : i \in (-1)..(MaxLen + 1)}

SliceBounds == {None} \cup {Some(i) : i \in (-MaxLen)..MaxLen}

Chars ==
    {"-", "0", "+", "1", "=", "N", "n", "Z", "z", "U+2717", "U+2713",
     " ", "\t", "a"}

MakeValues ==
    TritValues \cup {[type |-> "None"]} \cup
    {[type |-> "Real", num |-> i] : i \in -2..2} \cup
    {[type |-> "str", text |-> cs] : cs \in SeqsUpTo(Chars, MaxText)}

(***************************************************************************)
(* The state: cur is the Trits object at hand, last the call just made     *)
(* with its arguments and what it returned or raised.  The caller makes a  *)
(* call when idle, and is idle again once it has dropped the result.       *)
(***************************************************************************)
Init ==
    /\ cur = TritsInit([type |-> "int", int |-> IntOf(0)], None)
    /\ last = [op |-> "none"]

Idle == last.op = "none"

\* cur after a call that returned r
Keep(r) == IF IsRaised(r) \/ Trits_len(r) > MaxLen THEN cur ELSE r

\* Trits(trits, length)
ConstructFrom(inputs, lengths) ==
    /\ Idle
    /\ \E trits \in inputs, length \in lengths :
          LET r == TritsInit(trits, length)
          IN  /\ last' = [op |-> "Trits", trits |-> trits,
                          length |-> length, ret |-> r]
              /\ cur' = Keep(r)

Construct ==
    ConstructFrom(SmallInts \cup Lists \cup
                  {[type |-> "None"], [type |-> "Trits", obj |-> cur]},
                  Lengths)

ConstructBoundary == ConstructFrom(BoundaryInts \cup SmallInts, {None})

Neg ==
    /\ Idle
    /\ last' = [op |-> "neg", self |-> cur, ret |-> Trits_neg(cur)]
    /\ cur' = last'.ret

Invert ==
    /\ Idle
    /\ last' = [op |-> "invert", self |-> cur, ret |-> Trits_invert(cur)]
    /\ cur' = last'.ret

Abs ==
    /\ Idle
    /\ last' = [op |-> "abs", self |-> cur, ret |-> Trits_abs(cur)]
    /\ cur' = last'.ret

And ==
    /\ Idle
    /\ \E other \in Operands :
           /\ last' = [op |-> "and", self |-> cur, other |-> other,
                       ret |-> Trits_and(cur, other)]
           /\ cur' = last'.ret

Or ==
    /\ Idle
    /\ \E other \in Operands :
           /\ last' = [op |-> "or", self |-> cur, other |-> other,
                       ret |-> Trits_or(cur, other)]
           /\ cur' = last'.ret

Xor ==
    /\ Idle
    /\ \E other \in Operands :
           /\ last' = [op |-> "xor", self |-> cur, other |-> other,
                       ret |-> Trits_xor(cur, other)]
           /\ cur' = last'.ret

Add ==
    /\ Idle
    /\ \E other \in TritValues \cup Lists \cup
                    {[type |-> "Trits", obj |-> o] : o \in Operands} :
           /\ other.type # "Trit" =>
                  Trits_len(cur) + Len(Items(other)) <= MaxLen
           /\ last' = [op |-> "add", self |-> cur, other |-> other,
                       ret |-> Trits_add(cur, other)]
           /\ cur' = Keep(last'.ret)

Mul ==
    /\ Idle
    /\ \E n \in (-1)..MaxMul :
           /\ Trits_len(cur) * n <= MaxLen
           /\ last' = [op |-> "mul", self |-> cur, other |-> n,
                       ret |-> Trits_mul(cur, n)]
           /\ cur' = last'.ret

GetSlice ==
    /\ Idle
    /\ \E start \in SliceBounds, stop \in SliceBounds :
           /\ last' = [op |-> "getslice", self |-> cur, start |-> start,
                       stop |-> stop, ret |-> Trits_getslice(cur, start, stop)]
           /\ cur' = last'.ret

Cmp ==
    /\ Idle
    /\ \E other \in Operands :
           /\ last' = [op |-> "cmp", self |-> cur, other |-> other,
                       ret |-> cmp(cur, other),
                       lt |-> Trits_lt(cur, other),
                       eq |-> Trits_eq(cur, other),
                       gt |-> Trits_gt(cur, other)]
           /\ UNCHANGED cur

MatchLength ==
    /\ Idle
    /\ \E other \in Operands :
           /\ last' = [op |-> "match_length", a |-> cur, b |-> other,
                       ret |-> match_length(cur, other)]
           /\ UNCHANGED cur

TritMake ==
    /\ Idle
    /\ \E value \in MakeValues :
           /\ last' = [op |-> "Trit.make", value |-> value, ret |-> make(value)]
           /\ UNCHANGED cur

TritNeg ==
    /\ Idle
    /\ \E a \in TritSet :
           /\ last' = [op |-> "Trit.neg", self |-> a, ret |-> Trit_neg(a)]
           /\ UNCHANGED cur

TritAnd ==
    /\ Idle
    /\ \E a \in TritSet, b \in TritSet :
           /\ last' = [op |-> "Trit.and", self |-> a, other |-> b,
                       ret |-> Trit_and(a, b)]
           /\ UNCHANGED cur

TritOr ==
    /\ Idle
    /\ \E a \in TritSet, b \in TritSet :
           /\ last' = [op |-> "Trit.or", self |-> a, other |-> b,
                       ret |-> Trit_or(a, b)]
           /\ UNCHANGED cur

TritXor ==
    /\ Idle
    /\ \E a \in TritSet, b \in TritSet :
           /\ last' = [op |-> "Trit.xor", self |-> a, other |-> b,
                       ret |-> Trit_xor(a, b)]
           /\ UNCHANGED cur

TritAdd ==
    /\ Idle
    /\ \E a \in TritSet, b \in TritSet :
           /\ last' = [op |-> "Trit.add", self |-> a, other |-> b,
                       ret |-> add(a, b)]
           /\ UNCHANGED cur

\* The caller drops the result
Discard ==
    /\ ~Idle
    /\ last' = [op |-> "none"]
    /\ UNCHANGED cur

\* The operations on trit sequences, and the parsing of their elements
Next ==
    \/ Discard
    \/ Construct
    \/ Neg
    \/ Invert
    \/ Abs
    \/ And
    \/ Or
    \/ Xor
    \/ Add
    \/ Mul
    \/ GetSlice
    \/ Cmp
    \/ MatchLength
    \/ TritMake

Spec == Init /\ [][Next]_vars

\* The operations on single trits
NextTrit ==
    \/ Discard
    \/ TritMake
    \/ TritNeg
    \/ TritAnd
    \/ TritOr
    \/ TritXor
    \/ TritAdd

SpecTrit == Init /\ [][NextTrit]_vars

\* Construction from the integers at the edges of each order
NextInt ==
    \/ Discard
    \/ ConstructBoundary

SpecInt == Init /\ [][NextInt]_vars

(***************************************************************************)
(* Properties.                                                             *)
(***************************************************************************)
\* 3 * a
IntTriple(a) == IntAdd(a, IntAdd(a, a))

\* The positional sum of the digits ds, most significant first, by Horner's
\* rule over the first n of them.
RECURSIVE PositionalSum(_, _)
PositionalSum(ds, n) ==
    IF n = 0 THEN IntOf(0)
    ELSE IntAdd(IntTriple(PositionalSum(ds, n - 1)), IntOf(ds[n].integer))

\* A call Trits(n) with an integer n and no length
IsIntCall == last.op = "Trits" /\ last.trits.type = "int" /\ last.length = None

\* C1: for every integer n, the decoded integer of Trits(n) is n.
C1_RoundTrip == IsIntCall => last.ret.integer = last.trits.int

\* The smallest k with (3^k - 1) / 2 >= abs(n), that is 3^k >= 2 * abs(n) + 1
MinimalLength(n) ==
    LET need == IntAdd(IntAdd(IntAbs(n), IntAbs(n)), IntOf(1))
    IN  CHOOSE k \in 0..(MaxOrder + 2) :
            /\ ~IntLess(Pow3(k), need)
            /\ \A j \in 0..(k - 1) : IntLess(Pow3(j), need)

\* C2: Trits(0) has length 1 and text "0"; for nonzero n the most
\* significant trit of Trits(n) is not zero and the length is the smallest
\* k with (3^k - 1) / 2 >= abs(n).
C2_Minimal ==
    IsIntCall =>
        IF IntIsZero(last.trits.int)
        THEN Len(last.ret.trits) = 1 /\ last.ret.string = <<"0">>
        ELSE /\ last.ret.trits[1].integer # 0
             /\ Len(last.ret.trits) = MinimalLength(last.trits.int)

\* The Trits objects of the state: the one at hand and those the last call
\* took or returned
Objects ==
    {cur} \cup
    (IF last.op \in {"neg", "invert", "abs", "and", "or", "xor", "add",
                     "mul", "getslice"}
     THEN {last.self} ELSE {}) \cup
    (IF last.op \in {"Trits", "neg", "invert", "abs", "and", "or", "xor",
                     "add", "mul", "getslice"} /\ ~IsRaised(last.ret)
     THEN {last.ret} ELSE {}) \cup
    (IF last.op = "match_length" THEN {last.ret[1], last.ret[2]} ELSE {})

\* The cached integer and text of o agree with its digits
Consistent(o) ==
    /\ o.integer = PositionalSum(o.trits, Len(o.trits))
    /\ Len(o.string) = Len(o.trits)
    /\ \A i \in 1..Len(o.trits) :
           /\ o.trits[i] \in TritSet
           /\ o.string[i] = GLYPHS[o.trits[i].integer + 2]

\* C3: every trit sequence obtained by a chain of operations has its cached
\* integer equal to the positional sum of its digits and its cached text
\* equal to the glyphs of its digits, most significant first.
C3_Cached == \A o \in Objects : Consistent(o)

\* A chained result of several digits, some zero, with a nonzero integer
C3_Witness ==
    /\ last.op \in {"and", "or", "xor", "add", "mul", "getslice", "neg"}
    /\ ~IsRaised(last.ret)
    /\ Len(last.ret.trits) = MaxLen
    /\ TRITS[ZERO] \in {last.ret.trits[i] : i \in 1..MaxLen}
    /\ IntIsNeg(last.ret.integer)
    /\ last.self # TritsInit([type |-> "int", int |-> IntOf(0)], None)

\* A call Trits(trits, length) with a length that is not negative
IsForcedCall ==
    last.op = "Trits" /\ last.length # None /\ last.length[1] >= 0
    /\ ~IsRaised(last.ret)

\* The sequence the call of last gives when no length is asked for
Unforced == TritsInit(last.trits, None).trits

\* C4: with a target length L >= 0 the sequence has exactly L trits: the
\* unforced sequence padded with zero trits on the left when it is shorter,
\* its rightmost L trits when it is longer.
C4_ForcedLength ==
    IsForcedCall =>
        LET L == last.length[1]
            n == Len(Unforced)
            got == last.ret.trits
        IN  /\ Len(got) = L
            /\ \A i \in 1..L :
                   got[i] = IF i <= L - n THEN TRITS[ZERO]
                            ELSE Unforced[n - L + i]

\* C5: forcing a sequence s to a length L >= len(s) keeps its integer, and
\* match_length(a, b) returns a pair of the length of the longer operand
\* with the integers of a and b.
C5_Padding ==
    /\ (IsForcedCall /\ last.trits.type = "Trits"
        /\ last.length[1] >= Len(last.trits.obj.trits)) =>
           /\ last.ret.integer = last.trits.obj.integer
           /\ Len(last.ret.trits) = last.length[1]
    /\ last.op = "match_length" =>
           /\ Len(last.ret[1].trits) = Max(Len(last.a.trits), Len(last.b.trits))
           /\ Len(last.ret[2].trits) = Max(Len(last.a.trits), Len(last.b.trits))
           /\ last.ret[1].integer = last.a.integer
           /\ last.ret[2].integer = last.b.integer

\* match_length pads a shorter first operand that is not zero
C5_Witness ==
    /\ last.op = "match_length"
    /\ Len(last.a.trits) + 2 <= Len(last.b.trits)
    /\ IntIsNeg(last.a.integer)
    /\ Len(last.ret[1].trits) = MaxLen

\* The sign of a - b
SignOfDifference(a, b) ==
    IF IntLess(a, b) THEN -1 ELSE IF IntLess(b, a) THEN 1 ELSE 0

\* C6: a.cmp(b) is the sign of int(a) - int(b), so a < b, a == b and a > b
\* hold exactly when they hold of the integers.
C6_Compare ==
    last.op = "cmp" =>
        /\ last.ret = SignOfDifference(last.self.integer, last.other.integer)
        /\ last.lt <=> IntLess(last.self.integer, last.other.integer)
        /\ last.eq <=> last.self.integer = last.other.integer
        /\ last.gt <=> IntLess(last.other.integer, last.self.integer)

\* Operands of unequal length, the shorter the greater
C6_Witness ==
    /\ last.op = "cmp"
    /\ Len(last.self.trits) < Len(last.other.trits)
    /\ last.other.trits[1] = TRITS[ZERO]
    /\ last.ret = 1
    /\ last.gt

\* C7: a.add(b) is the pair (result, carry): the other operand and a zero
\* carry when an operand is zero; the negation of the operand and the
\* operand as carry when the operands are equal and not zero; zero and zero
\* when one is negative and the other positive.  In every case
\* value(result) + 3 * value(carry) = value(a) + value(b), and add is
\* commutative.
C7_Add ==
    last.op = "Trit.add" =>
        LET a == last.self
            b == last.other
            result == last.ret[1]
            carry == last.ret[2]
        IN  /\ result \in TritSet /\ carry \in TritSet
            /\ a.integer = 0 => result = b /\ carry.integer = 0
            /\ b.integer = 0 => result = a /\ carry.integer = 0
            /\ (a = b /\ a.integer # 0) =>
                   result.integer = -a.integer /\ carry = a
            /\ a.integer * b.integer = -1 =>
                   result.integer = 0 /\ carry.integer = 0
            /\ result.integer + 3 * carry.integer = a.integer + b.integer
            /\ last.ret = add(b, a)

\* positive + positive overflows into the carry
C7_Witness ==
    /\ last.op = "Trit.add"
    /\ last.self = TRITS[POS] /\ last.other = TRITS[POS]
    /\ last.ret = <<TRITS[NEG], TRITS[POS]>>

\* Kleene's AND, OR and XOR on the values -1, 0, 1
KleeneAnd(x, y) ==
    IF x = -1 \/ y = -1 THEN -1 ELSE IF x = 1 /\ y = 1 THEN 1 ELSE 0

KleeneOr(x, y) ==
    IF x = 1 \/ y = 1 THEN 1 ELSE IF x = -1 /\ y = -1 THEN -1 ELSE 0

KleeneXor(x, y) ==
    IF x = 0 \/ y = 0 THEN 0 ELSE IF x # y THEN 1 ELSE -1

\* C9: NOT(NOT(a)) = a; a AND a = a; a OR a = a; a XOR zero = zero; AND, OR
\* and XOR are commutative and are Kleene's connectives.
C9_Logic ==
    /\ last.op = "Trit.neg" =>
           /\ last.ret.integer = -last.self.integer
           /\ Trit_neg(last.ret) = last.self
    /\ last.op = "Trit.and" =>
           /\ last.ret.integer =
                  KleeneAnd(last.self.integer, last.other.integer)
           /\ last.self = last.other => last.ret = last.self
           /\ last.ret = Trit_and(last.other, last.self)
    /\ last.op = "Trit.or" =>
           /\ last.ret.integer =
                  KleeneOr(last.self.integer, last.other.integer)
           /\ last.self = last.other => last.ret = last.self
           /\ last.ret = Trit_or(last.other, last.self)
    /\ last.op = "Trit.xor" =>
           /\ last.ret.integer =
                  KleeneXor(last.self.integer, last.other.integer)
           /\ last.other = TRITS[ZERO] => last.ret = TRITS[ZERO]
           /\ last.ret = Trit_xor(last.other, last.self)

\* negative XOR positive is positive
C9_Witness ==
    /\ last.op = "Trit.xor"
    /\ last.self = TRITS[NEG] /\ last.other = TRITS[POS]
    /\ last.ret = TRITS[POS]

\* The first digit of s that is not zero, as -1 or 1, or 0 when there is none
RECURSIVE LeadingSign(_, _)
LeadingSign(ds, i) ==
    IF i > Len(ds) THEN 0
    ELSE IF ds[i].integer # 0 THEN ds[i].integer
    ELSE LeadingSign(ds, i + 1)

\* C8: abs(s) has the length of s and the integer abs(int(s)); it is s when
\* the first nonzero digit is positive or there is none, and the digit-wise
\* negation of s, of integer -int(s), when it is negative.
C8_Abs ==
    last.op = "abs" =>
        LET s == last.self
            r == last.ret
        IN  /\ Len(r.trits) = Len(s.trits)
            /\ r.integer = IntAbs(s.integer)
            /\ LeadingSign(s.trits, 1) >= 0 => r = s
            /\ LeadingSign(s.trits, 1) < 0 =>
                   /\ \A i \in 1..Len(s.trits) :
                          r.trits[i].integer = -s.trits[i].integer
                   /\ r.integer = IntNeg(s.integer)

\* A negative sequence with a leading zero trit and a positive trit
C8_Witness ==
    /\ last.op = "abs"
    /\ Len(last.self.trits) = MaxLen
    /\ last.self.trits[1] = TRITS[ZERO]
    /\ last.self.trits[2] = TRITS[NEG]
    /\ last.self.trits[3] = TRITS[POS]
    /\ ~IntIsNeg(last.ret.integer)

\* The accepted spellings, by the trit they give
Spellings ==
    [n \in {-1, 0, 1} |->
        CASE n = -1 -> {<<"-">>, <<"-", "1">>, <<"U+2717">>}
          [] n = 0 -> {<<"0">>, <<>>, <<"=">>, <<"N">>, <<"n">>, <<"Z">>,
                       <<"z">>}
          [] n = 1 -> {<<"+">>, <<"1">>, <<"U+2713">>}]

\* What make gives for a value that is no text
MakesNonText ==
    (last.op = "Trit.make" /\ last.value.type # "str") =>
        CASE last.value.type = "Trit" -> last.ret = last.value.trit
          [] last.value.type = "None" -> last.ret = TRITS[ZERO]
          [] last.value.type = "Real" ->
                 /\ ~IsRaised(last.ret)
                 /\ last.ret.integer =
                        (IF last.value.num < 0 THEN -1
                         ELSE IF last.value.num > 0 THEN 1 ELSE 0)

\* Construction from a list raises exactly when an element does not parse or
\* the length is negative
ListFailsFast ==
    (last.op = "Trits" /\ last.trits.type = "list") =>
        (IsRaised(last.ret) <=>
            \/ \E i \in 1..Len(last.trits.items) :
                   IsRaised(make(last.trits.items[i]))
            \/ last.length # None /\ last.length[1] < 0)

\* C10 as stated: make gives the expected trit for every accepted spelling
\* and raises for any other text.
C10_AnyOtherText ==
    (last.op = "Trit.make" /\ last.value.type = "str") =>
        IF \E n \in {-1, 0, 1} : last.value.text \in Spellings[n]
        THEN ~IsRaised(last.ret)
             /\ last.value.text \in Spellings[last.ret.integer]
        ELSE IsRaised(last.ret)

\* text is core with whitespace around it, and core has none at its ends
TrimsTo(text, core) ==
    \E i \in 0..Len(text), j \in 0..Len(text) :
        /\ i <= j
        /\ core = SubSeq(text, i + 1, j)
        /\ \A k \in 1..Len(text) : (k <= i \/ k > j) => text[k] \in Whitespace
        /\ core # <<>> => core[1] \notin Whitespace
                          /\ core[Len(core)] \notin Whitespace

\* C10, amended: make gives the expected trit for every text that is an
\* accepted spelling once the whitespace around it is dropped, and raises
\* for any other text; numbers go by sign and None gives zero; construction
\* from a list raises, and gives no sequence, exactly when an element does
\* not parse or the length is negative.
C10_FailFast ==
    /\ MakesNonText
    /\ ListFailsFast
    /\ (last.op = "Trit.make" /\ last.value.type = "str") =>
           IF \E n \in {-1, 0, 1} :
                  \E core \in Spellings[n] : TrimsTo(last.value.text, core)
           THEN ~IsRaised(last.ret)
                /\ \E core \in Spellings[last.ret.integer] :
                       TrimsTo(last.value.text, core)
           ELSE IsRaised(last.ret)

\* A spelling with whitespace before it parses
C10_Witness ==
    /\ last.op = "Trit.make"
    /\ last.value.type = "str"
    /\ last.value.text = <<" ", "+">>
    /\ last.ret = TRITS[POS]

\* C11: if a == b, as cmp decides after length matching, then
\* hash(a) = hash(b), that is a and b have the same text; also when they
\* differ only by leading zero trits.
C11_HashAgrees ==
    (last.op = "cmp" /\ last.eq) =>
        Trits_hash(last.self) = Trits_hash(last.other)

====
